---------------------------- MODULE Spec2Model ----------------------------
(***************************************************************************)
(* The certificate issuance handler of cursed (cursed/web.go): webHandler  *)
(* and validateHTTPParams.  Requests are served concurrently, one          *)
(* webHandler activation per request; the activations share the clock,     *)
(* the log and the public-key age store.                                   *)
(*                                                                         *)
(* Strings are TLA+ strings; CodePoints gives the characters of a user     *)
(* name, so that Go's len (a count of UTF-8 bytes) can be told from a      *)
(* count of characters.  A formatted string is the tuple of its format     *)
(* and its arguments.  Time is a count of clock ticks, TicksPerSec to the  *)
(* second.                                                                 *)
(***************************************************************************)
EXTENDS Integers, Sequences, FiniteSets, TLC

VARIABLES conf, now, pubKeys, log, pc, r, p, va, vb, fp, keyID, expired,
          seen, calls, signed, resp, valIn, valOut

vars == <<conf, now, pubKeys, log, pc, r, p, va, vb, fp, keyID, expired,
          seen, calls, signed, resp, valIn, valOut>>

(***************************** bounds **************************************)

\* Requests served (one webHandler activation each), concurrently.
NumReqs == 2

\* The clock runs from 0 to MaxTime ticks.
MaxTime == 2

\* Fields of a request of the pipeline that may differ from the valid one.
MaxDeviations == 1

\* Clock ticks to the second (time.RFC3339 prints whole seconds).
TicksPerSec == 2

(************************* configuration ***********************************)

\* conf.dur, the certificate lifetime, in ticks.
Dur == 2

\* The age, in ticks, past which checkPubKeyAge reports a key as expired.
MaxAge == 1

\* The longest bastion user name, in bytes.
MaxUserLen == 32

\* conf.UserHeader, conf.exts
UserHeader == "X-Forwarded-User"
Exts == {"permit-pty"}

\* The user name patterns conf.userRegex is taken from: lower-case ASCII
\* letters only (^[a-z]+$), or anything without a space (^[^ ]+$).
UserRegexes == {"^[a-z]+$", "^[^ ]+$"}

Reqs == 1 .. NumReqs

(****************************** strings ************************************)

\* The user names of the model: 31, 32 and 33 letters a; 31 letters a and
\* an e with acute accent (32 characters, 33 bytes); that letter alone.
A31 == "aaaaaaaaaaaaaaaaaaaaaaaaaaaaaaa"
A32 == "aaaaaaaaaaaaaaaaaaaaaaaaaaaaaaaa"
A33 == "aaaaaaaaaaaaaaaaaaaaaaaaaaaaaaaaa"
A31E == "aaaaaaaaaaaaaaaaaaaaaaaaaaaaaaa<U+00E9>"
E1 == "<U+00E9>"
UserNames == {"", "alice", "a b", A31, A32, A33, A31E, E1}

\* n times the code point c.
Rep(c, n) == [k \in 1 .. n |-> c]

\* The code points of a user name.
CodePoints(u) ==
    CASE u = ""      -> <<>>
      [] u = "alice" -> <<97, 108, 105, 99, 101>>
      [] u = "a b"   -> <<97, 32, 98>>
      [] u = A31     -> Rep(97, 31)
      [] u = A32     -> Rep(97, 32)
      [] u = A33     -> Rep(97, 33)
      [] u = A31E    -> Rep(97, 31) \o <<233>>
      [] u = E1      -> <<233>>

\* The bytes of one code point in UTF-8.
Utf8Len(c) == IF c < 128 THEN 1 ELSE IF c < 2048 THEN 2 ELSE IF c < 65536 THEN 3 ELSE 4

RECURSIVE Utf8Bytes(_)
Utf8Bytes(cs) == IF cs = <<>> THEN 0 ELSE Utf8Len(Head(cs)) + Utf8Bytes(Tail(cs))

\* Go's len(s) of a string: its length in bytes.
GoLen(u) == Utf8Bytes(CodePoints(u))

\* The characters of a string.
NumChars(u) == Len(CodePoints(u))

\* conf.userRegex.MatchString for the patterns of UserRegexes.
MatchString(re, u) ==
    LET cs == CodePoints(u) IN
    IF re = "^[a-z]+$"
    THEN cs # <<>> /\ \A k \in 1 .. Len(cs) : cs[k] >= 97 /\ cs[k] <= 122
    ELSE cs # <<>> /\ \A k \in 1 .. Len(cs) : cs[k] # 32

\* validIP: whether a string is a syntactically valid IP address.
ValidIPs == {"10.0.0.5", "203.0.113.9"}
IPTexts == ValidIPs \cup {"", "bastion.example"}
BastionIPs == {"10.0.0.5", "", "bastion.example"}
UserIPs == {"203.0.113.9", "", "client.example"}
validIP(s) == s \in ValidIPs

(******************************* keys **************************************)

KeyA == "ssh-ed25519 AAAA1 alice@laptop"
KeyA2 == "ssh-ed25519 AAAA1 alice@desk"
KeyB == "ssh-ed25519 AAAA2 bob@laptop"
PipelineKeys == {"", "not a key", KeyA, KeyA2, KeyB}

\* ssh.ParseAuthorizedKey: the key blob of an authorized-key line (its
\* comment is dropped), or <<>> on a parse error.
ParseAuthorizedKey(k) ==
    CASE k = KeyA  -> <<"AAAA1">>
      [] k = KeyA2 -> <<"AAAA1">>
      [] k = KeyB  -> <<"AAAA2">>
      [] OTHER     -> <<>>

\* ssh.FingerprintLegacyMD5 of a key blob.
FingerprintLegacyMD5(pk) ==
    CASE pk = "AAAA1" -> "0a:1b"
      [] pk = "AAAA2" -> "2c:3d"
      [] OTHER        -> "ff:ff"

(***************************** messages ************************************)

\* fmt.Sprintf / fmt.Errorf / log.Printf: the format and its arguments.
Sprintf(format, args) == <<format>> \o args

Nil == <<>>

\* t.Format(time.RFC3339): whole seconds.
FormatRFC3339(t) == ToString(t \div TicksPerSec)

\* Whether the string text contains the string part.
Contains(text, part) ==
    /\ part # <<>>
    /\ \E k \in 1 .. Len(text) :
          k + Len(part) - 1 <= Len(text) /\ SubSeq(text, k, k + Len(part) - 1) = part

(************************ validateHTTPParams *******************************)

\* validateHTTPParams refusing a user name of MaxUserLen bytes.
validateHTTPParamsOffByOne(q, c) ==
    IF c.ForceCmd /\ q.cmd = "" THEN Sprintf("cmd missing from request", <<>>)
    ELSE IF q.bastionIP = "" \/ ~validIP(q.bastionIP)
    THEN Sprintf("bastionIP is invalid", <<>>)
    ELSE IF q.bastionUser = ""
    THEN Sprintf("%s missing from request", <<UserHeader>>)
    ELSE IF GoLen(q.bastionUser) >= MaxUserLen \/ ~MatchString(c.userRegex, q.bastionUser)
    THEN Sprintf("username is invalid", <<>>)
    ELSE IF q.key = "" THEN Sprintf("key missing from request", <<>>)
    ELSE IF q.remoteUser = "" THEN Sprintf("remoteUser missing from request", <<>>)
    ELSE IF c.RequireClientIP /\ ~validIP(q.userIP)
    THEN Sprintf("invalid userIP", <<>>)
    ELSE Nil

\* validateHTTPParams without the check of lines 106-109.
validateHTTPParamsAnyCmd(q, c) ==
    IF q.bastionIP = "" \/ ~validIP(q.bastionIP)
    THEN Sprintf("bastionIP is invalid", <<>>)
    ELSE IF q.bastionUser = ""
    THEN Sprintf("%s missing from request", <<UserHeader>>)
    ELSE IF GoLen(q.bastionUser) > MaxUserLen \/ ~MatchString(c.userRegex, q.bastionUser)
    THEN Sprintf("username is invalid", <<>>)
    ELSE IF q.key = "" THEN Sprintf("key missing from request", <<>>)
    ELSE IF q.remoteUser = "" THEN Sprintf("remoteUser missing from request", <<>>)
    ELSE IF c.RequireClientIP /\ ~validIP(q.userIP) THEN Sprintf("invalid userIP", <<>>)
    ELSE Nil

\* validateHTTPParams: the error it returns, Nil for none.
validateHTTPParams(q, c) ==
    IF c.ForceCmd /\ q.cmd = "" THEN Sprintf("cmd missing from request", <<>>)
    ELSE IF q.bastionIP = "" \/ ~validIP(q.bastionIP)
    THEN Sprintf("bastionIP is invalid", <<>>)
    ELSE IF q.bastionUser = ""
    THEN Sprintf("%s missing from request", <<UserHeader>>)
    ELSE IF GoLen(q.bastionUser) > MaxUserLen \/ ~MatchString(c.userRegex, q.bastionUser)
    THEN Sprintf("username is invalid", <<>>)
    ELSE IF q.key = "" THEN Sprintf("key missing from request", <<>>)
    ELSE IF q.remoteUser = "" THEN Sprintf("remoteUser missing from request", <<>>)
    ELSE IF c.RequireClientIP /\ ~validIP(q.userIP)
    THEN Sprintf("invalid userIP", <<>>)
    ELSE Nil

\* The lines validateHTTPParams itself writes to the log.
validateLog(q, c) ==
    IF validateHTTPParams(q, c) = Sprintf("invalid userIP", <<>>)
    THEN <<Sprintf("invalid userIP: |%s|", <<q.userIP>>)>>
    ELSE <<>>

(**************************** webHandler ***********************************)

\* The zero httpParams.
NoParams == [bastionIP |-> "", bastionUser |-> "", cmd |-> "", key |-> "",
             remoteUser |-> "", userIP |-> ""]

\* The request of the specification's example: valid under every policy.
GoodRequest == [auth |-> "ok", bastionIP |-> "10.0.0.5", bastionUser |-> "alice",
                cmd |-> "uptime", key |-> KeyA, remoteUser |-> "deploy",
                userIP |-> "203.0.113.9"]

AllRequests == [auth : {"none", "bad", "ok"}, bastionIP : BastionIPs,
                bastionUser : {"", "alice", "a b"},
                cmd : {"", "uptime"}, key : PipelineKeys,
                remoteUser : {"", "deploy"}, userIP : UserIPs]

Deviations(q) == Cardinality({f \in DOMAIN q : q[f] # GoodRequest[f]})

\* The requests the pipeline is run on.
Requests == {q \in AllRequests : Deviations(q) <= MaxDeviations}

NoRequest == [GoodRequest EXCEPT !.auth = "idle"]

\* Lines 35-42: the form parameters loaded into a httpParams.
loadParams(q) == [bastionIP |-> q.bastionIP, bastionUser |-> q.bastionUser,
                  cmd |-> q.cmd, key |-> q.key, remoteUser |-> q.remoteUser,
                  userIP |-> q.userIP]

\* Line 46: the end of the validity, from the clock's reading t.
validBefore(t) == t + Dur

\* keyIDOf taking the source address from bastionIP.
keyIDOfFromBastionIP(q, f, b) ==
    Sprintf("user[%s] from[%s] command[%s] sshKey[%s] valid to[%s]",
            <<q.bastionUser, q.bastionIP, q.cmd, f, FormatRFC3339(b)>>)

\* keyIDOf taking the user from remoteUser.
keyIDOfForRemoteUser(q, f, b) ==
    Sprintf("user[%s] from[%s] command[%s] sshKey[%s] valid to[%s]",
            <<q.remoteUser, q.userIP, q.cmd, f, FormatRFC3339(b)>>)

\* Lines 60-61: the key_id of the certificate.
keyIDOf(q, f, b) ==
    Sprintf("user[%s] from[%s] command[%s] sshKey[%s] valid to[%s]",
            <<q.bastionUser, q.userIP, q.cmd, f, FormatRFC3339(b)>>)

NoKeyID == <<>>

\* certConfig taking the source address from userIP.
certConfigFromUserIP(q, kid, a, b) ==
    [certType |-> "UserCert", command |-> q.cmd, extensions |-> Exts,
     keyID |-> kid, principals |-> <<q.remoteUser>>, srcAddr |-> q.userIP,
     validAfter |-> a, validBefore |-> b]

\* certConfig taking the principal from bastionUser.
certConfigForBastionUser(q, kid, a, b) ==
    [certType |-> "UserCert", command |-> q.cmd, extensions |-> Exts,
     keyID |-> kid, principals |-> <<q.bastionUser>>, srcAddr |-> q.bastionIP,
     validAfter |-> a, validBefore |-> b]

\* Lines 83-92: the certificate options.
certConfig(q, kid, a, b) ==
    [certType |-> "UserCert", command |-> q.cmd, extensions |-> Exts,
     keyID |-> kid, principals |-> <<q.remoteUser>>, srcAddr |-> q.bastionIP,
     validAfter |-> a, validBefore |-> b]

\* validateAborts without the return of line 72.
validateAbortsNever(e) == FALSE

\* Lines 68 and 77: whether webHandler returns after validateHTTPParams
\* returned e, and after checkPubKeyAge returned (ex, e).
validateAborts(e) == e # Nil

\* ageAborts testing the error in place of expired.
ageAbortsOnError(ex, e) == e # Nil

ageAborts(ex, e) == ex

\* requestLine without the key_id.
requestLineBare(kid) == Sprintf("Request received", <<>>)

\* Line 64: the line that logs the request.
requestLine(kid) == Sprintf("Request: |%s|", kid)

\* Lines 97-98: what is logged and what is sent to the caller when
\* signPubKey returned the error e.
signFailureLine(e) == Sprintf("%v", e)

\* signFailureBody sending the error to the caller.
signFailureBodyDetailed(e) == Sprintf("Server error: %v", e)

signFailureBody(e) == <<"Server error">>

\* A line of the log, written while serving request i.
Line(i, text) == [req |-> i, text |-> text]

\* http.Error(w, text, status) and w.Write(authorizedKey).
HttpError(text, status) == [status |-> status, text |-> text, cert |-> <<>>]
Written(cert) == [status |-> 200, text |-> <<>>, cert |-> <<cert>>]

Call(fn, ok) == [fn |-> fn, ok |-> ok]

\* Line 78: the response to a key that is too old.
TooOld == HttpError(<<"Submitted pubkey is too old. Please generate new key.">>, 422)

\* signPubKey(conf.caSigner, key, cc): the certificate, or the error of a
\* signer that fails (ok is false).
SignError == Sprintf("Failed to sign user key: %v", <<"agent refused operation">>)
signPubKey(key, cc, ok) ==
    IF ok THEN [authorizedKey |-> <<[key |-> key, cc |-> cc]>>, err |-> Nil]
    ELSE [authorizedKey |-> <<>>, err |-> SignError]

\* checkPubKeyAge(conf, f) on the store s at time t: the store after it,
\* whether the key is too old, and the error.  A key not seen before is
\* recorded with the time; a key seen before is too old when more than
\* MaxAge has passed since.  When the store fails (ok is false) it returns
\* (false, err).  The look-up and the recording are one atomic step.
AgeError == Sprintf("Failed to look up fingerprint: %v", <<"database not open">>)

\* checkPubKeyAge that never finds the key in the store.
checkPubKeyAgeMissing(s, f, t, ok) ==
    IF ~ok THEN [store |-> s, expired |-> FALSE, err |-> AgeError, fresh |-> FALSE]
    ELSE [store |-> [g \in DOMAIN s \cup {f} |-> IF g = f THEN t ELSE s[g]],
          expired |-> FALSE, err |-> Nil, fresh |-> TRUE]

\* checkPubKeyAge that records the time of every look-up.
checkPubKeyAgeRefreshing(s, f, t, ok) ==
    IF ~ok THEN [store |-> s, expired |-> FALSE, err |-> AgeError, fresh |-> FALSE]
    ELSE [store |-> [g \in DOMAIN s \cup {f} |-> IF g = f THEN t ELSE s[g]],
          expired |-> f \in DOMAIN s /\ t - s[f] > MaxAge, err |-> Nil,
          fresh |-> f \notin DOMAIN s]

checkPubKeyAge(s, f, t, ok) ==
    IF ~ok THEN [store |-> s, expired |-> FALSE, err |-> AgeError, fresh |-> FALSE]
    ELSE IF f \in DOMAIN s
    THEN [store |-> s, expired |-> t - s[f] > MaxAge, err |-> Nil, fresh |-> FALSE]
    ELSE [store |-> [g \in DOMAIN s \cup {f} |-> IF g = f THEN t ELSE s[g]],
          expired |-> FALSE, err |-> Nil, fresh |-> TRUE]

\* What a call of checkPubKeyAge found: the key not seen before (Fresh),
\* seen and young enough (Aged), seen and too old (Expired), or an error.
Decision(res) ==
    IF res.err # Nil THEN "Error"
    ELSE IF res.fresh THEN "Fresh"
    ELSE IF res.expired THEN "Expired" ELSE "Aged"

Init ==
    /\ conf \in [ForceCmd : BOOLEAN, RequireClientIP : BOOLEAN, userRegex : {"^[a-z]+$"}]
    /\ now = 0
    /\ pubKeys = <<>>
    /\ log = <<>>
    /\ pc = [i \in Reqs |-> "idle"]
    /\ r = [i \in Reqs |-> NoRequest]
    /\ p = [i \in Reqs |-> NoParams]
    /\ va = [i \in Reqs |-> 0]
    /\ vb = [i \in Reqs |-> 0]
    /\ fp = [i \in Reqs |-> ""]
    /\ keyID = [i \in Reqs |-> NoKeyID]
    /\ expired = [i \in Reqs |-> FALSE]
    /\ seen = [i \in Reqs |-> ""]
    /\ calls = [i \in Reqs |-> <<>>]
    /\ signed = [i \in Reqs |-> <<>>]
    /\ resp = [i \in Reqs |-> <<>>]
    /\ valIn = NoParams
    /\ valOut = [done |-> FALSE, err |-> Nil]

\* The clock advances.
Tick ==
    /\ now < MaxTime
    /\ now' = now + 1
    /\ UNCHANGED <<seen, conf, pubKeys, log, pc, r, p, va, vb, fp, keyID, expired,
                   calls, signed, resp, valIn, valOut>>

\* Lines 23-24: r.BasicAuth() finds basic-auth credentials in the request.
hasBasicAuth(q) == q.auth # "none"

\* Line 28 without the comparison: any credentials pass.
credentialsMatchAny(q) == TRUE

\* Line 28: user and pass are the proxy's (conf.ProxyUser, conf.ProxyPass).
credentialsMatch(q) == q.auth = "ok"

\* A request arrives and webHandler runs lines 23-42 on it: basic auth
\* against the proxy's credentials, then the form parameters.
ReceiveFrom(i, qs) ==
    /\ pc[i] = "idle"
    /\ \E q \in qs :
         /\ r' = [r EXCEPT ![i] = q]
         /\ IF ~hasBasicAuth(q)
            THEN /\ resp' = [resp EXCEPT ![i] = Append(@, HttpError(<<"Authorization Failure">>, 401))]
                 /\ pc' = [pc EXCEPT ![i] = "done"]
                 /\ UNCHANGED <<log, p>>
            ELSE IF ~credentialsMatch(q)
            THEN /\ log' = Append(log, Line(i, Sprintf("Invalid proxy credentials", <<>>)))
                 /\ resp' = [resp EXCEPT ![i] = Append(@, HttpError(<<"Unauthorized">>, 401))]
                 /\ pc' = [pc EXCEPT ![i] = "done"]
                 /\ UNCHANGED p
            ELSE /\ p' = [p EXCEPT ![i] = loadParams(q)]
                 /\ pc' = [pc EXCEPT ![i] = "va"]
                 /\ UNCHANGED <<log, resp>>
    /\ UNCHANGED <<seen, conf, now, pubKeys, va, vb, fp, keyID, expired,
                   calls, signed, valIn, valOut>>

Receive(i) == ReceiveFrom(i, Requests)

\* Line 45: va := time.Now()
SetValidAfter(i) ==
    /\ pc[i] = "va"
    /\ va' = [va EXCEPT ![i] = now]
    /\ pc' = [pc EXCEPT ![i] = "vb"]
    /\ UNCHANGED <<seen, conf, now, pubKeys, log, r, p, vb, fp, keyID, expired,
                   calls, signed, resp, valIn, valOut>>

\* Line 46: vb := time.Now().Add(conf.dur)
SetValidBefore(i) ==
    /\ pc[i] = "vb"
    /\ vb' = [vb EXCEPT ![i] = validBefore(now)]
    /\ pc' = [pc EXCEPT ![i] = "parse"]
    /\ UNCHANGED <<seen, conf, now, pubKeys, log, r, p, va, fp, keyID, expired,
                   calls, signed, resp, valIn, valOut>>

\* Lines 49-64: the key is parsed and fingerprinted, the key_id built and
\* the request logged.
ParseKey(i) ==
    /\ pc[i] = "parse"
    /\ LET pk == ParseAuthorizedKey(p[i].key) IN
       IF pk = <<>>
       THEN /\ calls' = [calls EXCEPT ![i] = Append(@, Call("ssh.ParseAuthorizedKey", FALSE))]
            /\ log' = Append(log, Line(i, Sprintf("Unable to parse authorized key |%s|", <<p[i].key>>)))
            /\ resp' = [resp EXCEPT ![i] = Append(@, HttpError(<<"Unable to parse authorized key">>, 400))]
            /\ pc' = [pc EXCEPT ![i] = "done"]
            /\ UNCHANGED <<fp, keyID>>
       ELSE LET f == FingerprintLegacyMD5(pk[1])
                kid == keyIDOf(p[i], f, vb[i])
            IN /\ calls' = [calls EXCEPT ![i] = @ \o <<Call("ssh.ParseAuthorizedKey", TRUE),
                                                     Call("ssh.FingerprintLegacyMD5", TRUE)>>]
               /\ fp' = [fp EXCEPT ![i] = f]
               /\ keyID' = [keyID EXCEPT ![i] = kid]
               /\ log' = Append(log, Line(i, requestLine(kid)))
               /\ pc' = [pc EXCEPT ![i] = "validate"]
               /\ UNCHANGED resp
    /\ UNCHANGED <<seen, conf, now, pubKeys, r, p, va, vb, expired, signed, valIn, valOut>>

\* Lines 66-73: the parameters are validated.
Validate(i) ==
    /\ pc[i] = "validate"
    /\ LET err == validateHTTPParams(p[i], conf)
           errMsg == Sprintf("Param validation failure: %v", err)
           own == [k \in 1 .. Len(validateLog(p[i], conf)) |-> Line(i, validateLog(p[i], conf)[k])]
       IN /\ calls' = [calls EXCEPT ![i] = Append(@, Call("validateHTTPParams", err = Nil))]
          /\ IF validateAborts(err)
             THEN /\ log' = (log \o own) \o <<Line(i, errMsg)>>
                  /\ resp' = [resp EXCEPT ![i] = Append(@, HttpError(errMsg, 400))]
                  /\ pc' = [pc EXCEPT ![i] = "done"]
             ELSE /\ log' = log \o own
                  /\ pc' = [pc EXCEPT ![i] = "age"]
                  /\ UNCHANGED resp
    /\ UNCHANGED <<seen, conf, now, pubKeys, r, p, va, vb, fp, keyID, expired,
                   signed, valIn, valOut>>

\* Lines 75-80: the age of the public key is checked; the error
\* checkPubKeyAge returns is assigned and not read.
CheckAge(i) ==
    /\ pc[i] = "age"
    /\ \E ok \in BOOLEAN :
         LET res == checkPubKeyAge(pubKeys, fp[i], now, ok)
         IN /\ pubKeys' = res.store
            /\ expired' = [expired EXCEPT ![i] = res.expired]
            /\ seen' = [seen EXCEPT ![i] = Decision(res)]
            /\ calls' = [calls EXCEPT ![i] = Append(@, Call("checkPubKeyAge", res.err = Nil))]
            /\ IF ageAborts(res.expired, res.err)
               THEN /\ resp' = [resp EXCEPT ![i] = Append(@, TooOld)]
                    /\ pc' = [pc EXCEPT ![i] = "done"]
               ELSE /\ pc' = [pc EXCEPT ![i] = "sign"]
                    /\ UNCHANGED resp
    /\ UNCHANGED <<conf, now, log, r, p, va, vb, fp, keyID, signed, valIn, valOut>>

\* Lines 96-102 without the return of line 99: the error response is
\* followed by the write of the (empty) certificate.
signWritesNoReturn(res) ==
    IF res.err # Nil
    THEN <<HttpError(signFailureBody(res.err), 500),
           [status |-> 200, text |-> <<>>, cert |-> res.authorizedKey]>>
    ELSE <<Written(res.authorizedKey[1])>>

\* Lines 96-102: what webHandler writes to the caller after signPubKey
\* has returned.
signWrites(res) ==
    IF res.err # Nil
    THEN <<HttpError(signFailureBody(res.err), 500)>>
    ELSE <<Written(res.authorizedKey[1])>>

\* Lines 82-102: the certificate options are set and the key is signed;
\* the signer may fail.
Sign(i) ==
    /\ pc[i] = "sign"
    /\ \E ok \in BOOLEAN :
         LET cc == certConfig(p[i], keyID[i], va[i], vb[i])
             res == signPubKey(p[i].key, cc, ok)
         IN /\ signed' = [signed EXCEPT ![i] = Append(@, [key |-> p[i].key, cc |-> cc])]
            /\ calls' = [calls EXCEPT ![i] = Append(@, Call("signPubKey", res.err = Nil))]
            /\ resp' = [resp EXCEPT ![i] = @ \o signWrites(res)]
            /\ IF res.err # Nil
               THEN log' = Append(log, Line(i, signFailureLine(res.err)))
               ELSE UNCHANGED log
    /\ pc' = [pc EXCEPT ![i] = "done"]
    /\ UNCHANGED <<seen, conf, now, pubKeys, r, p, va, vb, fp, keyID, expired, valIn, valOut>>

Next ==
    \/ Tick
    \/ \E i \in Reqs : Receive(i)
    \/ \E i \in Reqs : SetValidAfter(i)
    \/ \E i \in Reqs : SetValidBefore(i)
    \/ \E i \in Reqs : ParseKey(i)
    \/ \E i \in Reqs : Validate(i)
    \/ \E i \in Reqs : CheckAge(i)
    \/ \E i \in Reqs : Sign(i)

Spec == Init /\ [][Next]_vars

(*********************** resubmitted keys **********************************)

\* Valid requests that differ in their key only.
ReplayRequests == {[GoodRequest EXCEPT !.key = k] : k \in {KeyA, KeyA2, KeyB}}

ReceiveValid(i) == ReceiveFrom(i, ReplayRequests)

\* webHandler has returned; the next request is served in its place.  The
\* lines the finished request wrote leave the part of the log that is kept.
Recycle(i) ==
    /\ pc[i] = "done"
    /\ pc' = [pc EXCEPT ![i] = "idle"]
    /\ r' = [r EXCEPT ![i] = NoRequest]
    /\ p' = [p EXCEPT ![i] = NoParams]
    /\ va' = [va EXCEPT ![i] = 0]
    /\ vb' = [vb EXCEPT ![i] = 0]
    /\ fp' = [fp EXCEPT ![i] = ""]
    /\ keyID' = [keyID EXCEPT ![i] = NoKeyID]
    /\ expired' = [expired EXCEPT ![i] = FALSE]
    /\ seen' = [seen EXCEPT ![i] = ""]
    /\ calls' = [calls EXCEPT ![i] = <<>>]
    /\ signed' = [signed EXCEPT ![i] = <<>>]
    /\ resp' = [resp EXCEPT ![i] = <<>>]
    /\ LET Kept(l) == l.req # i IN log' = SelectSeq(log, Kept)
    /\ UNCHANGED <<conf, now, pubKeys, valIn, valOut>>

NextReplay ==
    \/ Tick
    \/ \E i \in Reqs : ReceiveValid(i)
    \/ \E i \in Reqs : SetValidAfter(i)
    \/ \E i \in Reqs : SetValidBefore(i)
    \/ \E i \in Reqs : ParseKey(i)
    \/ \E i \in Reqs : Validate(i)
    \/ \E i \in Reqs : CheckAge(i)
    \/ \E i \in Reqs : Sign(i)
    \/ \E i \in Reqs : Recycle(i)

\* Requests with valid parameters, served one after another in each place,
\* under the strictest policy.
InitReplay == Init /\ conf.ForceCmd /\ conf.RequireClientIP

SpecReplay == InitReplay /\ [][NextReplay]_vars

(******************* validateHTTPParams on its own *************************)

\* The parameters validateHTTPParams is run on.
ValidateInputs == [bastionIP : IPTexts, bastionUser : UserNames, cmd : {"", "uptime"},
                   key : {"", "not a key", KeyA}, remoteUser : {"", "deploy"},
                   userIP : IPTexts]

InitValidate ==
    /\ conf \in [ForceCmd : BOOLEAN, RequireClientIP : BOOLEAN, userRegex : UserRegexes]
    /\ valIn \in ValidateInputs
    /\ valOut = [done |-> FALSE, err |-> Nil]
    /\ now = 0
    /\ pubKeys = <<>>
    /\ log = <<>>
    /\ pc = [i \in Reqs |-> "idle"]
    /\ r = [i \in Reqs |-> NoRequest]
    /\ p = [i \in Reqs |-> NoParams]
    /\ va = [i \in Reqs |-> 0]
    /\ vb = [i \in Reqs |-> 0]
    /\ fp = [i \in Reqs |-> ""]
    /\ keyID = [i \in Reqs |-> NoKeyID]
    /\ expired = [i \in Reqs |-> FALSE]
    /\ seen = [i \in Reqs |-> ""]
    /\ calls = [i \in Reqs |-> <<>>]
    /\ signed = [i \in Reqs |-> <<>>]
    /\ resp = [i \in Reqs |-> <<>>]

\* validateHTTPParams(valIn, conf) is called.
RunValidate ==
    /\ ~valOut.done
    /\ valOut' = [done |-> TRUE, err |-> validateHTTPParams(valIn, conf)]
    /\ UNCHANGED <<seen, conf, now, pubKeys, log, pc, r, p, va, vb, fp, keyID, expired,
                   calls, signed, resp, valIn>>

NextValidate == RunValidate

SpecValidate == InitValidate /\ [][NextValidate]_vars

(************************** history of a request ***************************)

\* Request i has passed the proxy's basic auth: it is handled by the pipeline.
Handled(i) == pc[i] # "idle" /\ r[i].auth = "ok"

\* fn was called while serving request i; it was called and returned ok.
Called(i, fn) == \E k \in 1 .. Len(calls[i]) : calls[i][k].fn = fn
Returned(i, fn, ok) == \E k \in 1 .. Len(calls[i]) : calls[i][k] = Call(fn, ok)

\* The lines of the log written for request i.
LinesOf(i) == {k \in 1 .. Len(log) : log[k].req = i}

\* The lines of request i that contain its key-id.
KeyIDLines(i) == {k \in LinesOf(i) : Contains(log[k].text, keyID[i])}

\* The mandatory fields: some is missing from q under the policy c.
MissingMandatory(q, c) ==
    \/ c.ForceCmd /\ q.cmd = ""
    \/ q.bastionIP = ""
    \/ q.bastionUser = ""
    \/ q.key = ""
    \/ q.remoteUser = ""
    \/ c.RequireClientIP /\ q.userIP = ""

IsValidationFailure(w) ==
    w.status = 400 /\ Head(w.text) = "Param validation failure: %v" /\ w.cert = <<>>

(******************************** C1 ***************************************)

\* C1 (as claimed): a request handled by webHandler that misses a mandatory
\* field fails with a validation failure, and neither the key parse, the
\* fingerprint nor signPubKey is called for it.
C1_MissingFieldFailsBeforeFingerprint ==
    \A i \in Reqs :
        Handled(i) /\ MissingMandatory(r[i], conf) =>
            /\ ~Called(i, "ssh.ParseAuthorizedKey")
            /\ ~Called(i, "ssh.FingerprintLegacyMD5")
            /\ ~Called(i, "signPubKey")
            /\ pc[i] = "done" => Len(resp[i]) = 1 /\ IsValidationFailure(resp[i][1])

(******************************** C2 ***************************************)

C3_ExpiredKeyIsRejectedUnsigned ==
    \A i \in Reqs :
        expired[i] => resp[i] = <<TooOld>> /\ ~Called(i, "signPubKey") /\ pc[i] = "done"

\* A key seen before, checked again more than MaxAge later.
C3_Witness ==
    \E i \in Reqs : expired[i] /\ pc[i] = "done" /\ now - pubKeys[fp[i]] > MaxAge

(******************************** C4 ***************************************)

\* C4 (as claimed): once a stage of webHandler has reported a failure, no
\* later stage is called; signPubKey is never called after checkPubKeyAge
\* returned an error.
C4_FailureAbortsThePipeline ==
    \A i \in Reqs :
        /\ \A k \in 1 .. Len(calls[i]) - 1 : calls[i][k].ok
        /\ expired[i] => ~Called(i, "signPubKey")

(******************************** C5 ***************************************)

\* The lines of request i that log a failure: all but the line that logs
\* the request.
FailureLines(i) == {k \in LinesOf(i) : Head(log[k].text) # "Request: |%s|"}

\* Request i has failed: its response is an error.
Failed(i) == pc[i] = "done" /\ resp[i] # <<>> /\ resp[i][Len(resp[i])].status # 200

\* C5 (as claimed): a failing request (malformed key, validation failure,
\* key too old, signing failure) has exactly one failure line in the log.
C5_EachFailureLoggedOnce ==
    \A i \in Reqs : Handled(i) /\ Failed(i) => Cardinality(FailureLines(i)) = 1

(******************************** C6 ***************************************)

\* C6: the srcAddr of every descriptor passed to signPubKey is the
\* request's bastionIP, a non-empty valid IP, and not the request's userIP
\* where the two differ.
C6_SourceAddressIsBastionIP ==
    \A i \in Reqs : \A k \in 1 .. Len(signed[i]) :
        /\ signed[i][k].cc.srcAddr = r[i].bastionIP
        /\ r[i].bastionIP # "" /\ validIP(r[i].bastionIP)
        /\ r[i].userIP # r[i].bastionIP => signed[i][k].cc.srcAddr # r[i].userIP

\* A key signed for a request whose userIP is no IP address (the client IP
\* is not required).
C6_Witness ==
    \E i \in Reqs : Len(signed[i]) = 1 /\ r[i].userIP = "client.example"

(******************************** C7 ***************************************)

\* C7 (as claimed): in every descriptor passed to signPubKey validBefore is
\* validAfter plus conf.dur exactly.
C7_ValidityIsExactlyTheLifetime ==
    \A i \in Reqs : \A k \in 1 .. Len(signed[i]) :
        signed[i][k].cc.validBefore = signed[i][k].cc.validAfter + Dur

(******************************** C8 ***************************************)

\* C8: the principals of every descriptor passed to signPubKey are the
\* request's remoteUser alone, and it is not empty.
C8_PrincipalIsTheRemoteUser ==
    \A i \in Reqs : \A k \in 1 .. Len(signed[i]) :
        /\ Len(signed[i][k].cc.principals) = 1
        /\ signed[i][k].cc.principals[1] = r[i].remoteUser
        /\ r[i].remoteUser # ""

C8_Witness ==
    \E i \in Reqs : Len(signed[i]) = 1 /\ signed[i][1].cc.principals = <<"deploy">>

(******************************** C9 ***************************************)

\* The checks (a) to (f) of q under the policy c, the user name measured
\* by userLen, and the reason each gives when it fails.
Checks(q, c, userLen) ==
    << ~c.ForceCmd \/ q.cmd # "",
       q.bastionIP # "" /\ validIP(q.bastionIP),
       q.bastionUser # "" /\ userLen <= 32 /\ MatchString(c.userRegex, q.bastionUser),
       q.key # "",
       q.remoteUser # "",
       ~c.RequireClientIP \/ validIP(q.userIP) >>

Reasons(q) ==
    << <<"cmd missing from request">>,
       <<"bastionIP is invalid">>,
       IF q.bastionUser = "" THEN <<"%s missing from request", UserHeader>>
                             ELSE <<"username is invalid">>,
       <<"key missing from request">>,
       <<"remoteUser missing from request">>,
       <<"invalid userIP">> >>

\* Success when every check holds, else the reason of the first that fails.
FirstFailure(checks, reasons) ==
    IF \A k \in 1 .. Len(checks) : checks[k] THEN Nil
    ELSE reasons[CHOOSE k \in 1 .. Len(checks) :
                    ~checks[k] /\ \A j \in 1 .. k - 1 : checks[j]]

\* C9 (as claimed): validateHTTPParams succeeds exactly when the six checks
\* hold, the user name being at most 32 characters, and else returns the
\* reason of the first failing check; so 32 characters are accepted and 33
\* refused.
C9_ValidateCountsCharacters ==
    valOut.done =>
        valOut.err = FirstFailure(Checks(valIn, conf, NumChars(valIn.bastionUser)),
                                  Reasons(valIn))

\* C9 (amended): validateHTTPParams succeeds exactly when the six checks
\* hold, the user name being at most 32 bytes of UTF-8 (32 characters only
\* when all are ASCII), and else returns the reason of the first failing
\* check in the order (a) to (f).
C9_ValidateCountsBytes ==
    valOut.done =>
        valOut.err = FirstFailure(Checks(valIn, conf, GoLen(valIn.bastionUser)),
                                  Reasons(valIn))

\* A user name of 32 characters and 33 bytes, matching the pattern, in an
\* otherwise valid request, is refused.
C9_Witness ==
    /\ valOut.done
    /\ valIn = [bastionIP |-> "10.0.0.5", bastionUser |-> A31E, cmd |-> "uptime",
                key |-> KeyA, remoteUser |-> "deploy", userIP |-> "203.0.113.9"]
    /\ MatchString(conf.userRegex, A31E)
    /\ NumChars(A31E) = 32
    /\ valOut.err = <<"username is invalid">>

(******************************** C10 **************************************)

\* C10: when signPubKey fails the caller is sent the fixed "Server error"
\* with status 500, no detail of the error and no certificate, and the
\* error is in the log.
C10_SigningFailureIsOpaque ==
    \A i \in Reqs :
        Returned(i, "signPubKey", FALSE) =>
            /\ Len(resp[i]) = 1
            /\ resp[i][1].status = 500
            /\ resp[i][1].text = <<"Server error">>
            /\ resp[i][1].cert = <<>>
            /\ \A k \in 2 .. Len(SignError) : ~Contains(resp[i][1].text, <<SignError[k]>>)
            /\ \E k \in LinesOf(i) : Contains(log[k].text, SignError)

C10_Witness ==
    \E i \in Reqs : Returned(i, "signPubKey", FALSE) /\ pc[i] = "done"

(******************************** C11 **************************************)

\* C11: of the requests that carry the same key, served concurrently, at
\* most one finds the key not seen before, and every one whose check
\* succeeded leaves the store with the one record of that key.
C11_OneRecordOneFresh ==
    \A i \in Reqs :
        seen[i] \in {"Fresh", "Aged", "Expired"} =>
            /\ fp[i] \in DOMAIN pubKeys
            /\ pubKeys[fp[i]] <= now
            /\ \A j \in Reqs \ {i} :
                   fp[j] = fp[i] /\ seen[i] = "Fresh" => seen[j] # "Fresh"

\* Two requests with the same key, both past the age check and neither
\* finished: one found the key fresh, the other found its record.
C11_Witness ==
    \E i, j \in Reqs :
        /\ i # j /\ fp[i] = fp[j]
        /\ pc[i] = "sign" /\ pc[j] = "sign"
        /\ seen[i] = "Fresh" /\ seen[j] = "Aged"

(******************************** C12 **************************************)

\* C12: the time recorded for a key is the time of its first age check and
\* no later request changes it; and a check made more than MaxAge after
\* that time reports the key expired and the request is refused, whatever
\* was submitted in between.
C12_FirstSeenIsKept ==
    [][/\ \A f \in DOMAIN pubKeys : f \in DOMAIN pubKeys' /\ pubKeys'[f] = pubKeys[f]
       /\ \A f \in DOMAIN pubKeys' \ DOMAIN pubKeys : pubKeys'[f] = now
       /\ \A i \in Reqs :
            /\ pc[i] = "age" /\ pc'[i] # "age" /\ seen'[i] # "Error"
            /\ fp[i] \in DOMAIN pubKeys /\ now - pubKeys[fp[i]] > MaxAge
            => expired'[i] /\ resp'[i] = <<TooOld>> /\ pc'[i] = "done"]_vars

\* A key first seen at time 0, submitted again in between (found aged) and
\* once more after MaxAge, when it is refused.
C12_Witness ==
    \E i, j \in Reqs :
        /\ i # j /\ fp[i] = fp[j] /\ fp[i] \in DOMAIN pubKeys
        /\ pubKeys[fp[i]] = 0
        /\ seen[j] = "Aged" /\ seen[i] = "Expired" /\ resp[i] = <<TooOld>>

(******************************** C13 **************************************)

\* A step of webHandler on request i after the parameters were loaded.
HandlerStep(i) ==
    \/ SetValidAfter(i) \/ SetValidBefore(i) \/ ParseKey(i)
    \/ Validate(i) \/ CheckAge(i) \/ Sign(i)

\* The two outcomes written to the caller.
IsCertificate(w) == w.status = 200 /\ w.cert # <<>> /\ w.text = <<>>
IsErrorResponse(w) == w.status # 200 /\ w.cert = <<>> /\ w.text # <<>>

\* The calls of signPubKey made for request i.
SignCalls(i) == {k \in 1 .. Len(calls[i]) : calls[i][k].fn = "signPubKey"}

\* C13: every request webHandler handles terminates with exactly one
\* outcome written to the caller, the signed certificate or one error
\* response and never both, and signPubKey is called at most once for it.
\* webHandler has no loop: it terminates when no position before its return
\* is stuck, and nothing is written before it returns.
C13_OneOutcomePerRequest ==
    \A i \in Reqs :
        /\ pc[i] \notin {"idle", "done"} => resp[i] = <<>> /\ ENABLED HandlerStep(i)
        /\ pc[i] = "done" =>
               /\ Len(resp[i]) = 1
               /\ IsCertificate(resp[i][1]) # IsErrorResponse(resp[i][1])
               /\ IsCertificate(resp[i][1]) <=> Returned(i, "signPubKey", TRUE)
        /\ Cardinality(SignCalls(i)) <= 1
        /\ Len(signed[i]) = Cardinality(SignCalls(i))

\* One request has got its certificate, and another one the error of the
\* signer, its single call of signPubKey having failed.
C13_Witness ==
    \E i, j \in Reqs :
        /\ pc[i] = "done" /\ IsCertificate(resp[i][1])
        /\ pc[j] = "done" /\ Returned(j, "signPubKey", FALSE)
        /\ Len(resp[j]) = 1 /\ resp[j][1].status = 500

(******************************** C14 **************************************)

\* C14: when ForceCmd is on, every descriptor passed to signPubKey has a
\* non-empty command equal to the cmd of the request; no certificate
\* without a forced command is signed under that policy.
C14_ForcedCommandIsSigned ==
    conf.ForceCmd =>
        \A i \in Reqs : \A k \in 1 .. Len(signed[i]) :
            /\ signed[i][k].cc.command # ""
            /\ signed[i][k].cc.command = r[i].cmd

\* Under ForceCmd a request with a command was signed, and a request
\* without one has returned unsigned.
C14_Witness ==
    /\ conf.ForceCmd
    /\ \E i, j \in Reqs :
        /\ Len(signed[i]) = 1 /\ signed[i][1].cc.command = "uptime"
        /\ r[j].auth = "ok" /\ r[j].cmd = "" /\ pc[j] = "done" /\ signed[j] = <<>>

(******************************** C15 **************************************)

\* Request i failed the parsing of its key or validateHTTPParams.
FailedBeforeReplayCheck(i) ==
    \/ Returned(i, "ssh.ParseAuthorizedKey", FALSE)
    \/ Returned(i, "validateHTTPParams", FALSE)

\* C15: a request that fails key parsing or validateHTTPParams never
\* reaches the replay check: checkPubKeyAge is not called for it, and the
\* records of the store are those of requests that passed both, so an
\* invalid request neither starts nor consumes the age window of a key.
C15_InvalidRequestsSkipReplayCheck ==
    /\ \A i \in Reqs :
           FailedBeforeReplayCheck(i) =>
               /\ ~Called(i, "checkPubKeyAge") /\ seen[i] = ""
               /\ pc[i] = "done"
    /\ \A f \in DOMAIN pubKeys :
           \E i \in Reqs :
               /\ fp[i] = f /\ seen[i] = "Fresh"
               /\ Returned(i, "ssh.ParseAuthorizedKey", TRUE)
               /\ Returned(i, "validateHTTPParams", TRUE)

\* A request with a key that parses failed the validation and left no
\* record of its key, while another request recorded its own.
C15_Witness ==
    \E i, j \in Reqs :
        /\ Returned(i, "validateHTTPParams", FALSE) /\ pc[i] = "done"
        /\ fp[i] # "" /\ fp[i] \notin DOMAIN pubKeys
        /\ seen[j] = "Fresh" /\ fp[j] \in DOMAIN pubKeys

(******************************** C16 **************************************)

\* C16: a request without basic-auth credentials, or with a user or
\* password that is not the proxy's, gets an unauthorized response (401)
\* and causes no key parsing, no validation, no replay check and no call of
\* signPubKey; every record of the store is of an authorized request.
C16_UnauthorizedIsRefusedFirst ==
    /\ \A i \in Reqs :
           pc[i] # "idle" /\ r[i].auth # "ok" =>
               /\ pc[i] = "done"
               /\ Len(resp[i]) = 1 /\ resp[i][1].status = 401 /\ resp[i][1].cert = <<>>
               /\ calls[i] = <<>> /\ signed[i] = <<>>
               /\ seen[i] = "" /\ fp[i] = "" /\ keyID[i] = NoKeyID
    /\ \A f \in DOMAIN pubKeys : \E i \in Reqs : fp[i] = f /\ r[i].auth = "ok"

\* A request without credentials and one with wrong credentials were both
\* refused, and the store is empty.
C16_Witness ==
    \E i, j \in Reqs :
        /\ r[i].auth = "none" /\ resp[i] = <<HttpError(<<"Authorization Failure">>, 401)>>
        /\ r[j].auth = "bad" /\ resp[j] = <<HttpError(<<"Unauthorized">>, 401)>>
        /\ pubKeys = <<>>

(******************************** C17 **************************************)

\* The parts of a key_id: Sprintf puts the format first.
UserOf(kid) == kid[2]
FromOf(kid) == kid[3]
CommandOf(kid) == kid[4]
SshKeyOf(kid) == kid[5]
ValidToOf(kid) == kid[6]

\* C17 as stated: for every descriptor passed to signPubKey the from[...]
\* part of its key-id is a valid IP address, whether RequireClientIP is on
\* or off.
C17_FromIsAlwaysAValidIP ==
    \A i \in Reqs : \A k \in 1 .. Len(signed[i]) :
        validIP(FromOf(signed[i][k].cc.keyID))

\* C17 amended: the from[...] part of the key-id of every descriptor passed
\* to signPubKey is the userIP of the request as received; it is a valid
\* IP address when RequireClientIP is on.
C17_FromIsTheUserIPAsReceived ==
    \A i \in Reqs : \A k \in 1 .. Len(signed[i]) :
        /\ FromOf(signed[i][k].cc.keyID) = r[i].userIP
        /\ conf.RequireClientIP => validIP(FromOf(signed[i][k].cc.keyID))

\* With RequireClientIP off a descriptor was signed whose key-id has the
\* userIP of the request, which is no IP address, in its from[...] part.
C17_Witness ==
    /\ ~conf.RequireClientIP
    /\ \E i \in Reqs :
        /\ Len(signed[i]) = 1 /\ r[i].userIP = "client.example"
        /\ FromOf(signed[i][1].cc.keyID) = "client.example"
        /\ Returned(i, "validateHTTPParams", TRUE)

(******************************** C18 **************************************)

\* C18: for every descriptor passed to signPubKey, the key-id is the string
\* written to the log line of the request, and the user, command,
\* fingerprint and expiry it embeds are the bastionUser of the request, the
\* command of the descriptor, the fingerprint the replay check was made
\* with, and the validBefore of the descriptor (formatted as RFC 3339).
C18_KeyIDIsTheLoggedIdentity ==
    \A i \in Reqs : \A k \in 1 .. Len(signed[i]) :
        LET cc == signed[i][k].cc IN
        /\ \E l \in LinesOf(i) : log[l].text = Sprintf("Request: |%s|", cc.keyID)
        /\ cc.keyID = keyID[i]
        /\ UserOf(cc.keyID) = r[i].bastionUser
        /\ CommandOf(cc.keyID) = cc.command
        /\ SshKeyOf(cc.keyID) = fp[i]
        /\ Called(i, "checkPubKeyAge")
        /\ seen[i] = "Error" \/ fp[i] \in DOMAIN pubKeys
        /\ ValidToOf(cc.keyID) = FormatRFC3339(cc.validBefore)

\* Two descriptors were signed for requests with different keys at
\* different times: their key-ids differ in fingerprint and expiry, and
\* one validBefore is not a whole second.
C18_Witness ==
    \E i, j \in Reqs :
        /\ Len(signed[i]) = 1 /\ Len(signed[j]) = 1
        /\ ValidToOf(signed[i][1].cc.keyID) # ValidToOf(signed[j][1].cc.keyID)
        /\ SshKeyOf(signed[i][1].cc.keyID) # SshKeyOf(signed[j][1].cc.keyID)
        /\ signed[i][1].cc.validBefore % TicksPerSec # 0

==========================================================================
